---- MODULE Spec2Model ----
(***************************************************************************)
(* Transcript word and n-gram counting (phrases_counts.py, word_clouds.py). *)
(*                                                                         *)
(* A string is a sequence of one-character strings.  A regular expression  *)
(* of the source is an operator P(s, i) giving the index just after the    *)
(* match of P that starts at index i of s, or 0 when P does not match      *)
(* there; re.sub is the operator Sub.                                      *)
(***************************************************************************)
EXTENDS Integers, Sequences, FiniteSets, TLC

\* ------------------------------------------------------------ characters

LowerLetters ==
  {"a","b","c","d","e","f","g","h","i","j","k","l","m",
   "n","o","p","q","r","s","t","u","v","w","x","y","z"}

UpperLetters ==
  {"A","B","C","D","E","F","G","H","I","J","K","L","M",
   "N","O","P","Q","R","S","T","U","V","W","X","Y","Z"}

Digits == {"0","1","2","3","4","5","6","7","8","9"}

UpperSeq ==
  <<"A","B","C","D","E","F","G","H","I","J","K","L","M",
    "N","O","P","Q","R","S","T","U","V","W","X","Y","Z">>

LowerSeq ==
  <<"a","b","c","d","e","f","g","h","i","j","k","l","m",
    "n","o","p","q","r","s","t","u","v","w","x","y","z">>

WordChars == LowerLetters \cup UpperLetters \cup Digits \cup {"_"}

\* \d
IsDigit(c) == c \in Digits

\* \w
IsWord(c) == c \in WordChars

\* \s
IsSpace(c) == c \in {" ", "\t", "\n", "\r", "\f"}

\* U+2019, the right single quotation mark (one character, named here)
RightQuote == "u2019"

\* str.lower() on one character
LowerChar(c) ==
  IF c \in UpperLetters
  THEN LowerSeq[CHOOSE k \in 1..Len(UpperSeq) : UpperSeq[k] = c]
  ELSE c

\* str.lower()
Lower(s) == [i \in 1..Len(s) |-> LowerChar(s[i])]

\* the character at index i, "" outside the string
At(s, i) == IF i >= 1 /\ i <= Len(s) THEN s[i] ELSE ""

\* s[i..j-1] (indices from 1, j exclusive), clipped to the string as a slice is
Slice(s, i, j) ==
  LET a == IF i < 1 THEN 1 ELSE i
      b == IF j - 1 > Len(s) THEN Len(s) ELSE j - 1
  IN  IF b < a THEN <<>> ELSE SubSeq(s, a, b)

\* \b between index i-1 and index i
WordBoundary(s, i) == IsWord(At(s, i - 1)) # IsWord(At(s, i))

RECURSIVE SkipSpaces(_, _)
\* \s* from index i: the first index at or after i holding no whitespace
SkipSpaces(s, i) ==
  IF i <= Len(s) /\ IsSpace(s[i]) THEN SkipSpaces(s, i + 1) ELSE i

RECURSIVE SkipDigits(_, _)
\* \d* from index i
SkipDigits(s, i) ==
  IF i <= Len(s) /\ IsDigit(s[i]) THEN SkipDigits(s, i + 1) ELSE i

RECURSIVE SkipNonSpaces(_, _)
\* \S* from index i
SkipNonSpaces(s, i) ==
  IF i <= Len(s) /\ ~IsSpace(s[i]) THEN SkipNonSpaces(s, i + 1) ELSE i

RECURSIVE FindChar(_, _, _)
\* the first index at or after i holding c, 0 when there is none
FindChar(s, c, i) ==
  IF i > Len(s) THEN 0
  ELSE IF s[i] = c THEN i
  ELSE FindChar(s, c, i + 1)

RECURSIVE SubFrom(_, _, _, _)
SubFrom(s, m, repl, i) ==
  IF i > Len(s) THEN <<>>
  ELSE IF m[i] > 0 THEN repl \o SubFrom(s, m, repl, m[i])
  ELSE <<s[i]>> \o SubFrom(s, m, repl, i + 1)

\* re.sub: every leftmost non-overlapping match replaced by repl; m[i] is the
\* end of the match starting at i (0: none).  No pattern here matches "".
Sub(s, m, repl) == SubFrom(s, m, repl, 1)

\* str.strip()
Strip(s) ==
  LET a == SkipSpaces(s, 1)
      e == IF a > Len(s) THEN 0
           ELSE CHOOSE k \in a..Len(s) :
                  /\ ~IsSpace(s[k])
                  /\ \A j \in (k + 1)..Len(s) : IsSpace(s[j])
  IN  Slice(s, a, e + 1)

RECURSIVE RStripNewlines(_)
\* str.rstrip("\r\n")
RStripNewlines(s) ==
  IF Len(s) > 0 /\ s[Len(s)] \in {"\r", "\n"}
  THEN RStripNewlines(SubSeq(s, 1, Len(s) - 1))
  ELSE s

\* ------------------------------------------------------------- patterns

\* \d{2}
D2(s, i) == IsDigit(At(s, i)) /\ IsDigit(At(s, i + 1))

\* \d{2}:\d{2}:\d{2}
Hms(s, i) ==
  /\ D2(s, i) /\ At(s, i + 2) = ":"
  /\ D2(s, i + 3) /\ At(s, i + 5) = ":"
  /\ D2(s, i + 6)

\* \d{2}:\d{2}:\d{2}[.,]\d{3}
HmsMs(s, i) ==
  /\ Hms(s, i)
  /\ At(s, i + 8) \in {".", ","}
  /\ D2(s, i + 9) /\ IsDigit(At(s, i + 11))

\* \b\d{2}:\d{2}:\d{2}[.,]\d{3}\s*-->\s*\d{2}:\d{2}:\d{2}[.,]\d{3}\b
RANGE_VTT(s, i) ==
  LET j == SkipSpaces(s, i + 12)
      k == SkipSpaces(s, j + 3)
  IN  IF /\ WordBoundary(s, i) /\ HmsMs(s, i)
         /\ At(s, j) = "-" /\ At(s, j + 1) = "-" /\ At(s, j + 2) = ">"
         /\ HmsMs(s, k) /\ WordBoundary(s, k + 12)
      THEN k + 12 ELSE 0

\* \b\d{2}:\d{2}:\d{2}[.,]\d{3}\b
STAMP_HMS_MS(s, i) ==
  IF WordBoundary(s, i) /\ HmsMs(s, i) /\ WordBoundary(s, i + 12)
  THEN i + 12 ELSE 0

\* \b\d{2}:\d{2}:\d{2}\b
STAMP_HMS(s, i) ==
  IF WordBoundary(s, i) /\ Hms(s, i) /\ WordBoundary(s, i + 8)
  THEN i + 8 ELSE 0

\* (?<!\d)\b\d{1,2}:\d{2}\b(?!:\d), the two-digit minutes tried first
STAMP_MS(s, i) ==
  LET tail(p) == /\ At(s, p) = ":" /\ D2(s, p + 1)
                 /\ WordBoundary(s, p + 3)
                 /\ ~(At(s, p + 3) = ":" /\ IsDigit(At(s, p + 4)))
  IN  IF ~IsDigit(At(s, i - 1)) /\ WordBoundary(s, i) /\ IsDigit(At(s, i))
      THEN IF IsDigit(At(s, i + 1)) /\ tail(i + 2) THEN i + 5
           ELSE IF tail(i + 1) THEN i + 4
           ELSE 0
      ELSE 0

\* \[\s*\d{1,2}:\d{2}(?::\d{2})?\s*\]
STAMP_BRACKETED(s, i) ==
  LET j == SkipSpaces(s, i + 1)
      \* the end of  :\d{2}(?::\d{2})?\s*\]  from p, the seconds tried first
      rest(p) ==
        IF At(s, p) = ":" /\ D2(s, p + 1)
        THEN LET a == SkipSpaces(s, p + 6)
                 b == SkipSpaces(s, p + 3)
             IN  IF At(s, p + 3) = ":" /\ D2(s, p + 4) /\ At(s, a) = "]"
                 THEN a + 1
                 ELSE IF At(s, b) = "]" THEN b + 1
                 ELSE 0
        ELSE 0
  IN  IF At(s, i) = "[" /\ IsDigit(At(s, j))
      THEN IF IsDigit(At(s, j + 1)) /\ rest(j + 2) > 0 THEN rest(j + 2)
           ELSE rest(j + 1)
      ELSE 0

\* ^\s*\d+\s*$  (match)
LINE_NUMBER_SRT(s) ==
  LET j == SkipSpaces(s, 1)
      k == SkipDigits(s, j)
  IN  k > j /\ SkipSpaces(s, k) = Len(s) + 1

\* ^\s*WEBVTT\b, ignoring case  (match)
WEBVTT_HEADER(s) ==
  LET j == SkipSpaces(s, 1)
  IN  /\ Lower(Slice(s, j, j + 6)) = <<"w","e","b","v","t","t">>
      /\ j + 5 <= Len(s)
      /\ WordBoundary(s, j + 6)

\* </?c(?:\.[^>]+)?>, ignoring case
VTT_CUE_TAG(s, i) ==
  LET p == IF At(s, i + 1) = "/" THEN i + 2 ELSE i + 1
      g == FindChar(s, ">", p + 2)
  IN  IF At(s, i) = "<" /\ LowerChar(At(s, p)) = "c"
      THEN IF At(s, p + 1) = "." /\ g >= p + 3 THEN g + 1
           ELSE IF At(s, p + 1) = ">" THEN p + 2
           ELSE 0
      ELSE 0

\* <[^>]+>
HTML_TAG(s, i) ==
  LET g == FindChar(s, ">", i + 1)
  IN  IF At(s, i) = "<" /\ g >= i + 2 THEN g + 1 ELSE 0

\* https?://\S+|www\.\S+, ignoring case
URL(s, i) ==
  LET p == IF LowerChar(At(s, i + 4)) = "s" THEN i + 5 ELSE i + 4
  IN  IF /\ Lower(Slice(s, i, i + 4)) = <<"h","t","t","p">>
         /\ i + 3 <= Len(s)
         /\ At(s, p) = ":" /\ At(s, p + 1) = "/" /\ At(s, p + 2) = "/"
         /\ SkipNonSpaces(s, p + 3) > p + 3
      THEN SkipNonSpaces(s, p + 3)
      ELSE IF /\ Lower(Slice(s, i, i + 3)) = <<"w","w","w">>
              /\ i + 2 <= Len(s)
              /\ At(s, i + 3) = "."
              /\ SkipNonSpaces(s, i + 4) > i + 4
      THEN SkipNonSpaces(s, i + 4)
      ELSE 0

MaxLabelLen == 80

\* ^\s*[^:]{1,80}:\s+ : the end of the match at the start of s, 0 when none.
\* k is the first colon; \s* may give back whitespace to [^:]{1,80}.
SPEAKER_PREFIX(s) ==
  LET k    == FindChar(s, ":", 1)
      lead == SkipSpaces(s, 1) - 1
      skip == IF lead < k - 2 THEN lead ELSE k - 2
  IN  IF /\ k >= 2
         /\ (k - 1) - skip <= MaxLabelLen
         /\ IsSpace(At(s, k + 1))
      THEN SkipSpaces(s, k + 1)
      ELSE 0

\* ------------------------------------------------------------- cleaning

strip_timestamps_everywhere(s) ==
  LET s1 == Sub(s,  [i \in 1..Len(s)  |-> RANGE_VTT(s, i)],        <<" ">>)
      s2 == Sub(s1, [i \in 1..Len(s1) |-> STAMP_BRACKETED(s1, i)], <<" ">>)
      s3 == Sub(s2, [i \in 1..Len(s2) |-> STAMP_HMS_MS(s2, i)],    <<" ">>)
      s4 == Sub(s3, [i \in 1..Len(s3) |-> STAMP_HMS(s3, i)],       <<" ">>)
  IN  Sub(s4, [i \in 1..Len(s4) |-> STAMP_MS(s4, i)], <<" ">>)

\* s.startswith(a) and s.endswith(b), a and b one character each
Enclosed(s, a, b) == Len(s) > 0 /\ s[1] = a /\ s[Len(s)] = b

\* VTT_CUE_TAG.sub(" ", s)
StripCueTags(s) == Sub(s, [i \in 1..Len(s) |-> VTT_CUE_TAG(s, i)], <<" ">>)

\* URL.sub(" ", s)
StripUrls(s) == Sub(s, [i \in 1..Len(s) |-> URL(s, i)], <<" ">>)

\* HTML_TAG.sub(" ", s)
StripTags(s) == Sub(s, [i \in 1..Len(s) |-> HTML_TAG(s, i)], <<" ">>)

\* SPEAKER_PREFIX.sub("", s)
StripSpeaker(s) ==
  IF SPEAKER_PREFIX(s) > 0 THEN Slice(s, SPEAKER_PREFIX(s), Len(s) + 1) ELSE s

\* the text of a line after the cue tags (vtt), the URLs, the tags, the
\* timestamps and the speaker prefix are removed: s before the cue test
Denoised(line, fmt) ==
  LET s0 == RStripNewlines(line)
      s1 == IF fmt = "vtt" THEN StripCueTags(s0) ELSE s0
  IN  StripSpeaker(strip_timestamps_everywhere(StripTags(StripUrls(s1))))

\* the line is returned as "" before the generic cleanup
DroppedOnSight(line, fmt) ==
  LET s0 == RStripNewlines(line)
  IN  \/ s0 = <<>>
      \/ fmt = "vtt" /\ WEBVTT_HEADER(s0)
      \/ fmt = "srt" /\ LINE_NUMBER_SRT(s0)

clean_line(line, fmt) ==
  LET s == Denoised(line, fmt)
  IN  IF DroppedOnSight(line, fmt) THEN <<>>
      ELSE IF Enclosed(s, "(", ")") \/ Enclosed(s, "[", "]") THEN <<>>
      ELSE Strip(s)

\* ------------------------------------------------------------ tokenizing

TokenChars == LowerLetters \cup UpperLetters \cup Digits \cup {"'", "-"}

\* [^a-zA-Z0-9'\-]
IsNonTokenChar(c) == c \notin TokenChars

RECURSIVE SkipNonTokenChars(_, _)
SkipNonTokenChars(s, i) ==
  IF i <= Len(s) /\ IsNonTokenChar(s[i])
  THEN SkipNonTokenChars(s, i + 1) ELSE i

\* [^a-zA-Z0-9'\-]+
NON_ALNUM_APOST(s, i) ==
  IF IsNonTokenChar(At(s, i)) THEN SkipNonTokenChars(s, i) ELSE 0

RECURSIVE SplitFrom(_, _)
SplitFrom(s, i) ==
  LET a == SkipSpaces(s, i)
      e == SkipNonSpaces(s, a)
  IN  IF a > Len(s) THEN <<>>
      ELSE <<Slice(s, a, e)>> \o SplitFrom(s, e)

\* str.split(): the maximal runs of non-whitespace
Split(s) == SplitFrom(s, 1)

RECURSIVE SkipApostrophes(_, _)
SkipApostrophes(s, i) ==
  IF i <= Len(s) /\ s[i] = "'" THEN SkipApostrophes(s, i + 1) ELSE i

\* (^'+|'+$) replaced by "": the apostrophes at both ends removed
APOST_EDGES_sub(raw) ==
  LET a == SkipApostrophes(raw, 1)
      e == IF a > Len(raw) THEN 0
           ELSE CHOOSE k \in a..Len(raw) :
                  /\ raw[k] # "'"
                  /\ \A j \in (k + 1)..Len(raw) : raw[j] = "'"
  IN  Slice(raw, a, e + 1)

\* str.replace(old, new), old and new one character each
ReplaceChar(s, old, new) == [i \in 1..Len(s) |-> IF s[i] = old THEN new ELSE s[i]]

\* str.replace("'", "")
RemoveApostrophes(s) == SelectSeq(s, LAMBDA c : c # "'")

\* str.isdigit()
isdigit(tok) == Len(tok) > 0 /\ \A i \in 1..Len(tok) : IsDigit(tok[i])

\* one raw token of the loop of tokenize: <<tok>> when kept, <<>> when not
TokenOf(raw, keep_numbers) ==
  LET tok == RemoveApostrophes(ReplaceChar(APOST_EDGES_sub(raw), RightQuote, "'"))
  IN  IF ~keep_numbers /\ isdigit(tok) THEN <<>>
      ELSE IF tok # <<>> THEN <<tok>>
      ELSE <<>>

RECURSIVE TokensOf(_, _)
TokensOf(raws, keep_numbers) ==
  IF raws = <<>> THEN <<>>
  ELSE TokenOf(Head(raws), keep_numbers) \o TokensOf(Tail(raws), keep_numbers)

tokenize(text, keep_numbers) ==
  LET t == Sub(text, [i \in 1..Len(text) |-> NON_ALNUM_APOST(text, i)], <<" ">>)
  IN  TokensOf(Split(t), keep_numbers)

RECURSIVE Join(_, _)
\* sep.join(parts)
Join(parts, sep) ==
  IF parts = <<>> THEN <<>>
  ELSE IF Len(parts) = 1 THEN parts[1]
  ELSE parts[1] \o sep \o Join(Tail(parts), sep)

\* "".join(l for l in lines if l): the lines run together
JoinLinesNoSep(lines) == Join(SelectSeq(lines, LAMBDA l : l # <<>>), <<>>)

\* " ".join(l for l in lines if l)
JoinLines(lines) == Join(SelectSeq(lines, LAMBDA l : l # <<>>), <<" ">>)

\* ------------------------------------------------------------- counting

DEFAULT_STOPWORDS ==
  { <<"a">>, <<"a","n">>, <<"a","n","d">>, <<"t","h","e">>, <<"o","r">>,
    <<"b","u","t">>, <<"i","f">>, <<"t","h","e","n">>, <<"t","h","a","n">>,
    <<"t","h","a","t">>, <<"t","h","i","s">>, <<"t","h","o","s","e">>,
    <<"t","h","e","s","e">>, <<"t","h","e","r","e">>, <<"h","e","r","e">>,
    <<"w","h","e","n">>, <<"w","h","e","r","e">>, <<"w","h","y">>,
    <<"h","o","w">>, <<"w","h","a","t">>, <<"w","h","i","c","h">>,
    <<"w","h","o">>, <<"w","h","o","m">>, <<"w","h","o","s","e">>,
    <<"w","i","t","h">>, <<"w","i","t","h","o","u","t">>, <<"f","o","r">>,
    <<"f","r","o","m">>, <<"t","o">>, <<"i","n">>, <<"i","n","t","o">>,
    <<"o","n">>, <<"o","n","t","o">>, <<"o","f">>, <<"a","t">>, <<"b","y">>,
    <<"b","e">>, <<"i","s">>, <<"a","m">>, <<"a","r","e">>, <<"w","a","s">>,
    <<"w","e","r","e">>, <<"b","e","e","n">>, <<"b","e","i","n","g">>,
    <<"a","s">>, <<"d","o">>, <<"d","o","e","s">>, <<"d","i","d">>,
    <<"d","o","n","e">>, <<"d","o","i","n","g">>, <<"h","a","v","e">>,
    <<"h","a","s">>, <<"h","a","d">>, <<"h","a","v","i","n","g">>, <<"i">>,
    <<"m","e">>, <<"m","y">>, <<"m","y","s","e","l","f">>, <<"w","e">>,
    <<"o","u","r">>, <<"o","u","r","s">>,
    <<"o","u","r","s","e","l","v","e","s">>, <<"y","o","u">>,
    <<"y","o","u","r">>, <<"y","o","u","r","s">>,
    <<"y","o","u","r","s","e","l","f">>,
    <<"y","o","u","r","s","e","l","v","e","s">>, <<"h","e">>,
    <<"h","i","m">>, <<"h","i","s">>, <<"h","i","m","s","e","l","f">>,
    <<"s","h","e">>, <<"h","e","r">>, <<"h","e","r","s">>,
    <<"h","e","r","s","e","l","f">>, <<"i","t">>, <<"i","t","s">>,
    <<"i","t","s","e","l","f">>, <<"t","h","e","y">>, <<"t","h","e","m">>,
    <<"t","h","e","i","r">>, <<"t","h","e","i","r","s">>,
    <<"t","h","e","m","s","e","l","v","e","s">>, <<"a","l","l">>,
    <<"a","n","y">>, <<"b","o","t","h">>, <<"e","a","c","h">>,
    <<"f","e","w">>, <<"m","o","r","e">>, <<"m","o","s","t">>,
    <<"o","t","h","e","r">>, <<"s","o","m","e">>, <<"s","u","c","h">>,
    <<"n","o">>, <<"n","o","r">>, <<"n","o","t">>, <<"o","n","l","y">>,
    <<"o","w","n">>, <<"s","a","m","e">>, <<"s","o">>, <<"t","o","o">>,
    <<"v","e","r","y">>, <<"c","a","n">>, <<"c","o","u","l","d">>,
    <<"s","h","o","u","l","d">>, <<"w","o","u","l","d">>, <<"m","a","y">>,
    <<"m","i","g","h","t">>, <<"w","i","l","l">>, <<"j","u","s","t">>,
    <<"a","l","s","o">>, <<"u","m">>, <<"u","h">>, <<"e","r","m">>,
    <<"h","m","m">>, <<"l","i","k","e">>, <<"k","i","n","d","a">>,
    <<"s","o","r","t","a">>, <<"y","e","a","h">>, <<"r","i","g","h","t">>,
    <<"o","k","a","y">>, <<"o","k">>, <<"a","l","r","i","g","h","t">> }

\* the stopword files there are, each a sequence of lines
StopwordFiles ==
  [ p \in {"stop.txt"} |-> << <<" ","K","n","o","w"," ">>, <<" ">>, <<"x">> >> ]

\* path is "" when no --stopwords is given
load_stopwords(path) ==
  IF path # "" /\ path \in DOMAIN StopwordFiles
  THEN LET lns == StopwordFiles[path]
       IN  DEFAULT_STOPWORDS \cup
             { Lower(Strip(lns[i])) :
                 i \in {j \in 1..Len(lns) : Strip(lns[j]) # <<>>} }
  ELSE DEFAULT_STOPWORDS

\* ext is p.suffix.lower() without its dot
guess_fmt(ext) ==
  IF ext = "vtt" THEN "vtt"
  ELSE IF ext = "srt" THEN "srt"
  ELSE "txt"

\* tokens[lo:hi] as Python slices it, lo >= 0: a negative hi counts from the end
PySlice(tokens, lo, hi) ==
  LET h  == IF hi < 0 THEN hi + Len(tokens) ELSE hi
      h2 == IF h < 0 THEN 0 ELSE IF h > Len(tokens) THEN Len(tokens) ELSE h
  IN  IF h2 <= lo THEN <<>> ELSE SubSeq(tokens, lo + 1, h2)

make_ngrams(tokens, n) ==
  IF Len(tokens) < n THEN <<>>
  ELSE [i \in 1..(Len(tokens) - n + 1) |->
          Join(PySlice(tokens, i - 1, i - 1 + n), <<" ">>)]

\* A Counter is the sequence of its <<key, count>> items in insertion order.

\* the index of key in a counter, 0 when it is not a key
KeyIndex(counts, key) ==
  IF \E i \in 1..Len(counts) : counts[i][1] = key
  THEN CHOOSE i \in 1..Len(counts) : counts[i][1] = key
  ELSE 0

\* counts[key] = 1
IncrOverwrite(counts, key) ==
  LET k == KeyIndex(counts, key)
  IN  IF k > 0 THEN [counts EXCEPT ![k] = <<key, 1>>]
      ELSE Append(counts, <<key, 1>>)

\* counts[key] += 1
Incr(counts, key) ==
  LET k == KeyIndex(counts, key)
  IN  IF k > 0 THEN [counts EXCEPT ![k] = <<key, counts[k][2] + 1>>]
      ELSE Append(counts, <<key, 1>>)

RECURSIVE Counter_update(_, _)
\* counts.update(items)
Counter_update(counts, items) ==
  IF items = <<>> THEN counts
  ELSE Counter_update(Incr(counts, Head(items)), Tail(items))

\* [t for t in tokens if len(t) >= minlen]: the stopword test left out
FilterTokensNoStop(tokens, minlen, stop) ==
  SelectSeq(tokens, LAMBDA t : Len(t) >= minlen)

\* [t for t in tokens if len(t) >= minlen and t not in stop]
FilterTokens(tokens, minlen, stop) ==
  SelectSeq(tokens, LAMBDA t : Len(t) >= minlen /\ t \notin stop)

RECURSIVE CountLoop(_, _, _, _)
\* for t in tokens: if len(t) < minlen or t in stop: continue; counts[t] += 1
CountLoop(counts, tokens, minlen, stop) ==
  IF tokens = <<>> THEN counts
  ELSE IF Len(Head(tokens)) < minlen \/ Head(tokens) \in stop
  THEN CountLoop(counts, Tail(tokens), minlen, stop)
  ELSE CountLoop(Incr(counts, Head(tokens)), Tail(tokens), minlen, stop)

RECURSIVE UpdateNgrams(_, _, _)
\* for n in ngrams: ngram_counts[n].update(make_ngrams(tokens, n))
UpdateNgrams(nc, ngrams, tokens) ==
  IF ngrams = <<>> THEN nc
  ELSE LET n == Head(ngrams)
       IN  UpdateNgrams([nc EXCEPT ![n] = Counter_update(@, make_ngrams(tokens, n))],
                        Tail(ngrams), tokens)

\* the tokens of one file before the length and stopword filter
FileTokens(f, a) ==
  LET ft      == guess_fmt(f.ext)
      cleaned == JoinLines([i \in 1..Len(f.lines) |-> clean_line(f.lines[i], ft)])
      text    == IF a.lower THEN Lower(cleaned) ELSE cleaned
  IN  tokenize(text, a.keep_numbers)

\* an item put before the items of its own count
InsertDescUnstable(sorted, item) ==
  LET k == Cardinality({i \in 1..Len(sorted) : sorted[i][2] > item[2]})
  IN  SubSeq(sorted, 1, k) \o <<item>> \o SubSeq(sorted, k + 1, Len(sorted))

\* one step of the stable sort by count, largest first: the item goes after
\* every item of at least its count
InsertDesc(sorted, item) ==
  LET k == Cardinality({i \in 1..Len(sorted) : sorted[i][2] >= item[2]})
  IN  SubSeq(sorted, 1, k) \o <<item>> \o SubSeq(sorted, k + 1, Len(sorted))

RECURSIVE SortedDescFrom(_, _)
SortedDescFrom(sorted, items) ==
  IF items = <<>> THEN sorted
  ELSE SortedDescFrom(InsertDesc(sorted, Head(items)), Tail(items))

\* sorted(counts.items(), key=itemgetter(1), reverse=True)
SortedDesc(counts) == SortedDescFrom(<<>>, counts)

\* counts.most_common(n), n an integer: heapq.nlargest(n, items, key=count)
most_common(counts, n) ==
  IF n <= 0 THEN <<>>
  ELSE IF n >= Len(counts) THEN SortedDesc(counts)
  ELSE SubSeq(SortedDesc(counts), 1, n)

\* the file write_csv writes; top is None (here 0) when --top is 0
write_csv(counts, header, top) ==
  [ header |-> header,
    rows   |-> IF top # 0 THEN most_common(counts, top) ELSE SortedDesc(counts) ]

\* ------------------------------------------------------------------ state

VARIABLES
  \* clean_line applied to a line, and again to its own result
  line, fmt, out, out2, stage

VARIABLES
  \* two cleaned lines of one file, tokenized joined and one by one
  la, lb, keep, toks_joined, toks_apart, tstage

VARIABLES
  \* one run of main: the program, its arguments, the files under the root,
  \* the files not yet read, the files whose read raised, the counters,
  \* where the run is, whether the warning was printed, --top as main read it,
  \* and the files written
  prog, args, corpus, todo, unread, word_counts, ngram_counts, pc, warned,
  top, csv

cleanVars == <<line, fmt, out, out2, stage>>

tokVars == <<la, lb, keep, toks_joined, toks_apart, tstage>>

runVars ==
  <<prog, args, corpus, todo, unread, word_counts, ngram_counts, pc, warned,
    top, csv>>

vars == <<cleanVars, tokVars, runVars>>

CleanIdle ==
  line = <<>> /\ fmt = "txt" /\ out = <<>> /\ out2 = <<>> /\ stage = "idle"

TokIdle ==
  /\ la = <<>> /\ lb = <<>> /\ keep = FALSE
  /\ toks_joined = <<>> /\ toks_apart = <<>> /\ tstage = "idle"

RunIdle ==
  /\ prog = "word_clouds"
  /\ args = [minlen |-> 2, lower |-> TRUE, keep_numbers |-> FALSE,
             ngrams |-> <<>>, stopwords |-> ""]
  /\ corpus = {} /\ todo = {} /\ unread = {}
  /\ word_counts = <<>> /\ ngram_counts = <<>>
  /\ pc = "idle" /\ warned = FALSE /\ top = 0 /\ csv = {}

\* ----------------------------------------------- clean_line on its own

Formats == {"vtt", "srt", "txt"}

MaxPieces == 3

\* the fragments input lines are built from
Pieces ==
  { <<"w","w">>, <<"w",".","x">>, <<":">>, <<" ">>,
    <<"(">>, <<")">>, <<"[">>, <<"]">>, <<"<","c",">">>,
    <<"4","2">>, <<"1",":","2","3">>,
    <<"W","E","B","V","T","T">>,
    <<"0","0",":","0","1",":","2","3",",","4","5","6">>,
    <<" ","-","-",">"," ">> }

RECURSIVE LinesOf(_)
\* the concatenations of at most k fragments
LinesOf(k) ==
  IF k = 0 THEN {<<>>}
  ELSE LET prev == LinesOf(k - 1)
       IN  prev \cup {l \o p : l \in prev, p \in Pieces}

Lines == LinesOf(MaxPieces)

CleanInit ==
  /\ line \in Lines
  /\ fmt \in Formats
  /\ out = <<>> /\ out2 = <<>>
  /\ stage = "line"

\* s = clean_line(line, fmt)
Clean ==
  /\ stage = "line"
  /\ out' = clean_line(line, fmt)
  /\ stage' = "cleaned"
  /\ UNCHANGED <<line, fmt, out2, tokVars, runVars>>

\* clean_line(s, fmt)
Reclean ==
  /\ stage = "cleaned"
  /\ out2' = clean_line(out, fmt)
  /\ stage' = "recleaned"
  /\ UNCHANGED <<line, fmt, out, tokVars, runVars>>

CleanNext == Clean \/ Reclean

InitClean == CleanInit /\ TokIdle /\ RunIdle

SpecClean == InitClean /\ [][CleanNext]_vars

\* ------------------------------------------------- tokenize on its own

MaxLineLen == 2

\* the characters cleaned lines are built from here: a letter, a digit, the
\* apostrophe, the hyphen, the space and a character outside ASCII
TokChars == {"a", "1", "'", "-", " ", RightQuote}

RECURSIVE StringsOf(_)
\* the strings over TokChars of length at most k
StringsOf(k) ==
  IF k = 0 THEN {<<>>}
  ELSE LET prev == StringsOf(k - 1)
       IN  prev \cup {s \o <<c>> : s \in prev, c \in TokChars}

\* the lines clean_line hands to the join: not empty, and left as they are by
\* clean_line
CleanedLines ==
  {s \in StringsOf(MaxLineLen) : s # <<>> /\ clean_line(s, "txt") = s}

TokInit ==
  /\ la \in CleanedLines
  /\ lb \in CleanedLines
  /\ keep \in BOOLEAN
  /\ toks_joined = <<>> /\ toks_apart = <<>>
  /\ tstage = "lines"

\* cleaned = " ".join(...); tokens = tokenize(cleaned, keep_numbers)
TokenizeJoined ==
  /\ tstage = "lines"
  /\ toks_joined' = tokenize(JoinLines(<<la, lb>>), keep)
  /\ tstage' = "joined"
  /\ UNCHANGED <<la, lb, keep, toks_apart, cleanVars, runVars>>

\* tokenize(a, keep_numbers) + tokenize(b, keep_numbers)
TokenizeEach ==
  /\ tstage = "joined"
  /\ toks_apart' = tokenize(la, keep) \o tokenize(lb, keep)
  /\ tstage' = "both"
  /\ UNCHANGED <<la, lb, keep, toks_joined, cleanVars, runVars>>

TokNext == TokenizeJoined \/ TokenizeEach

InitTok == TokInit /\ CleanIdle /\ RunIdle

SpecTok == InitTok /\ [][TokNext]_vars

\* ------------------------------------------------------- a run of main

\* WEBVTT | 00:01:23,456 --> 00:01:25,000 | <c.x>Alice:</c> I don't know, right?
F1 ==
  [ ext |-> "vtt",
    lines |-> <<
      <<"W","E","B","V","T","T">>,
      <<"0","0",":","0","1",":","2","3",",","4","5","6"," ","-","-",">"," ","0","0",":","0","1",":","2","5",",","0","0","0">>,
      <<"<","c",".","x",">","A","l","i","c","e",":","<","/","c",">"," ","I"," ","d","o","n","'","t"," ","k","n","o","w",","," ","r","i","g","h","t","?">> >> ]

\* 42 | 00:01:26,000 --> 00:01:28,500 | Data science is great data 42 | (laughter)
F2 ==
  [ ext |-> "srt",
    lines |-> <<
      <<"4","2">>,
      <<"0","0",":","0","1",":","2","6",",","0","0","0"," ","-","-",">"," ","0","0",":","0","1",":","2","8",",","5","0","0">>,
      <<"D","a","t","a"," ","s","c","i","e","n","c","e"," ","i","s"," ","g","r","e","a","t"," ","d","a","t","a"," ","4","2">>,
      <<"(","l","a","u","g","h","t","e","r",")">> >> ]

\* [01:23] Bob: AI data x 7 http://x.y
F3 ==
  [ ext |-> "txt",
    lines |-> <<
      <<"[","0","1",":","2","3","]"," ","B","o","b",":"," ","A","I"," ","d","a","t","a"," ","x"," ","7"," ","h","t","t","p",":","/","/","x",".","y">> >> ]

\* The data THE science | um, the
F4 ==
  [ ext |-> "txt",
    lines |-> <<
      <<"T","h","e"," ","d","a","t","a"," ","T","H","E"," ","s","c","i","e","n","c","e">>,
      <<"u","m",","," ","t","h","e">> >> ]

\* the transcript files a root directory may hold
Pool == <<F1, F2, F3, F4>>

MaxFiles == 2

MaxMinlen == 2

MaxTop == 2

\* the --ngrams lists tried
NgramChoices == { <<>>, <<2>>, <<3, 2>>, <<2, 2>>, <<0>>, <<-1>> }

RunInit ==
  /\ prog \in {"word_clouds", "phrases_counts"}
  /\ args \in [ minlen       : 0..MaxMinlen,
                lower        : BOOLEAN,
                keep_numbers : BOOLEAN,
                ngrams       : IF prog = "phrases_counts" THEN NgramChoices
                               ELSE {<<>>},
                stopwords    : {"", "stop.txt"} ]
  /\ corpus \in {c \in SUBSET (1..Len(Pool)) : Cardinality(c) <= MaxFiles}
  /\ todo = {} /\ unread = {}
  /\ word_counts = <<>> /\ ngram_counts = <<>>
  /\ pc = "start" /\ warned = FALSE /\ top = 0 /\ csv = {}

\* main up to the loop of parse_dir: the root must exist; the counters start
\* empty, one n-gram counter for each order asked for
Main_Start ==
  /\ pc = "start"
  /\ \E exists \in BOOLEAN :
       IF exists
       THEN /\ pc' = "parse"
            /\ todo' = corpus
            /\ word_counts' = <<>>
            /\ ngram_counts' =
                 [n \in {args.ngrams[i] : i \in 1..Len(args.ngrams)} |-> <<>>]
       ELSE /\ pc' = "exit1"
            /\ UNCHANGED <<todo, word_counts, ngram_counts>>
  /\ UNCHANGED <<prog, args, corpus, unread, warned, top, csv>>
  /\ UNCHANGED <<cleanVars, tokVars>>

\* one pass of the loop of parse_dir, on a file iter_files has not given yet.
\* read is how the reads go: "ok", "fallback" (the first raises, the second,
\* in the except branch, succeeds) or "error" (both raise, and the second is
\* not caught).
ProcessFile(f) ==
  /\ pc = "parse"
  /\ f \in todo
  /\ \E stop \in {load_stopwords(args.stopwords)} :
     \E tokens \in {FileTokens(Pool[f], args)} :
     \E kept \in {FilterTokens(tokens, args.minlen, stop)} :
     \E read \in {"ok", "fallback", "error"} :
       IF read = "error"
       THEN /\ pc' = "aborted"
            /\ unread' = unread \cup {f}
            /\ UNCHANGED <<todo, word_counts, ngram_counts>>
       ELSE /\ word_counts' =
                 IF prog = "word_clouds"
                 THEN CountLoop(word_counts, tokens, args.minlen, stop)
                 ELSE Counter_update(word_counts, kept)
            /\ ngram_counts' = UpdateNgrams(ngram_counts, args.ngrams, kept)
            /\ todo' = todo \ {f}
            /\ UNCHANGED <<pc, unread>>
  /\ UNCHANGED <<prog, args, corpus, warned, top, csv>>
  /\ UNCHANGED <<cleanVars, tokVars>>

\* main after parse_dir: the warning (word_clouds only) and the files written
Main_Write ==
  /\ pc = "parse"
  /\ todo = {}
  /\ \E t \in -1..MaxTop :
       /\ top' = t
       /\ csv' =
            IF prog = "word_clouds"
            THEN { [kind |-> "unigram", n |-> 1]
                     @@ write_csv(word_counts, <<"word", "count">>, t) }
            ELSE { [kind |-> "unigram", n |-> 1]
                     @@ write_csv(word_counts, <<"phrase", "count">>, t) }
                 \cup
                 { [kind |-> "ngram", n |-> n]
                     @@ write_csv(ngram_counts[n], <<"phrase", "count">>, t) :
                   n \in DOMAIN ngram_counts }
  /\ warned' = (prog = "word_clouds" /\ word_counts = <<>>)
  /\ pc' = "done"
  /\ UNCHANGED <<prog, args, corpus, todo, unread, word_counts, ngram_counts>>
  /\ UNCHANGED <<cleanVars, tokVars>>

Init == RunInit /\ CleanIdle /\ TokIdle

Next ==
  \/ Main_Start
  \/ \E f \in 1..Len(Pool) : ProcessFile(f)
  \/ Main_Write

Spec == Init /\ [][Next]_vars

\* ------------------------------------------------------------ properties

\* the characters of a string
Chars(s) == {s[i] : i \in 1..Len(s)}

\* the items of a sequence
Range(s) == {s[i] : i \in 1..Len(s)}

\* a whole-line cue: "(...)" or "[...]"
IsCue(s) == Enclosed(s, "(", ")") \/ Enclosed(s, "[", "]")

\* how often key occurs in a sequence
Occ(s, key) == Cardinality({i \in 1..Len(s) : s[i] = key})

RECURSIVE SumOver(_, _)
\* the sum of fn over the set S
SumOver(S, fn) ==
  IF S = {} THEN 0
  ELSE LET x == CHOOSE y \in S : TRUE
       IN  fn[x] + SumOver(S \ {x}, fn)

\* the keys of a counter, its count of a key, and the sum of its counts
Keys(counts) == {counts[i][1] : i \in 1..Len(counts)}

CountOf(counts, key) ==
  IF KeyIndex(counts, key) > 0 THEN counts[KeyIndex(counts, key)][2] ELSE 0

Total(counts) == SumOver(1..Len(counts), [i \in 1..Len(counts) |-> counts[i][2]])

\* a counter holds each key once, with a count of at least one
WellFormed(counts) ==
  /\ \A i, j \in 1..Len(counts) : counts[i][1] = counts[j][1] => i = j
  /\ \A i \in 1..Len(counts) : counts[i][2] >= 1

\* the stopword set of the run
Stop == load_stopwords(args.stopwords)

\* the tokens of file f that pass the length and the stopword filter
Surviving(f) ==
  SelectSeq(FileTokens(Pool[f], args),
            LAMBDA t : Len(t) >= args.minlen /\ t \notin Stop)

RECURSIVE WindowsFrom(_, _, _)
WindowsFrom(tokens, n, i) ==
  IF i + n - 1 > Len(tokens) THEN <<>>
  ELSE <<Join(SubSeq(tokens, i, i + n - 1), <<" ">>)>>
         \o WindowsFrom(tokens, n, i + 1)

\* the windows of exactly n tokens of a token sequence, n >= 1, each joined by
\* single spaces, from left to right
Windows(tokens, n) == WindowsFrom(tokens, n, 1)

\* counts is the key-wise sum of the sequences parts[f], f in S
IsSumOf(counts, S, parts) ==
  /\ WellFormed(counts)
  /\ \A k \in Keys(counts) \cup UNION {Range(parts[f]) : f \in S} :
       CountOf(counts, k) = SumOver(S, [f \in S |-> Occ(parts[f], k)])
  /\ Total(counts) = SumOver(S, [f \in S |-> Len(parts[f])])

RECURSIVE SurvivingUpTo(_)
\* <<Surviving(1), ..., Surviving(k)>>, with <<>> for a file not in the corpus
SurvivingUpTo(k) ==
  IF k = 0 THEN <<>>
  ELSE Append(SurvivingUpTo(k - 1),
              IF k \in corpus THEN Surviving(k) ELSE <<>>)

RECURSIVE WindowsOfAll(_, _)
\* the windows of n tokens of each sequence of parts
WindowsOfAll(parts, n) ==
  IF parts = <<>> THEN <<>>
  ELSE <<Windows(Head(parts), n)>> \o WindowsOfAll(Tail(parts), n)

\* parse_dir has read every file and returns its tables
Parsed == pc = "parse" /\ todo = {}

\* C1: whatever the order the files were read in, the final unigram table is
\* the key-wise sum of the per-file tables, and its total is the number of
\* tokens, over all files, that pass the length and the stopword filter.
C1_UnigramIsSum ==
  Parsed =>
    \A parts \in {SurvivingUpTo(Len(Pool))} :
      IsSumOf(word_counts, corpus, parts)

\* every file of a corpus of two read, the two sharing a word and losing a token
\* to the filters
C1_Witness ==
  /\ Parsed
  /\ Cardinality(corpus) >= 2
  /\ \E parts \in {SurvivingUpTo(Len(Pool))} :
       /\ \E k \in Keys(word_counts) :
            /\ CountOf(word_counts, k) >= 3
            /\ \A f \in corpus : Occ(parts[f], k) >= 1
       /\ \E f \in corpus :
            Len(parts[f]) < Len(FileTokens(Pool[f], args))

\* C2: for every requested order n (of at least one token), the final order-n
\* table is the sum over the files of the windows of exactly n tokens of that
\* file's filtered tokens, each window counted once: a file with L surviving
\* tokens adds max(0, L - n + 1) to the total.
C2_NgramIsSum ==
  Parsed =>
    \A parts \in {SurvivingUpTo(Len(Pool))} :
      \A n \in DOMAIN ngram_counts :
        n >= 1 =>
          \A wins \in {WindowsOfAll(parts, n)} :
            IsSumOf(ngram_counts[n], corpus, wins)

\* a token that may be counted
Countable(t) ==
  /\ Len(t) >= args.minlen
  /\ t \notin Stop
  /\ (~args.keep_numbers => ~isdigit(t))

\* C3: every token counted, alone or inside an n-gram, has at least the
\* minimum length, is no stopword and, unless numbers are kept, is not made
\* of digits only.
C3_CountedTokensPass ==
  /\ \A k \in Keys(word_counts) : Countable(k)
  /\ \A n \in DOMAIN ngram_counts :
       \A k \in Keys(ngram_counts[n]) :
         \A t \in Range(Split(k)) : Countable(t)

\* a finished run that counted words and two-word phrases from a file holding
\* a stopword, a token below the minimum length and a number
C3_Witness ==
  /\ pc = "done"
  /\ word_counts # <<>>
  /\ \E n \in DOMAIN ngram_counts :
       \E k \in Keys(ngram_counts[n]) : Len(Split(k)) >= 2
  /\ \E f \in corpus :
       LET raw == tokenize(JoinLines([i \in 1..Len(Pool[f].lines) |->
                    clean_line(Pool[f].lines[i], guess_fmt(Pool[f].ext))]), TRUE)
       IN  /\ \E t \in Range(raw) : Lower(t) \in Stop
           /\ \E t \in Range(raw) : Len(t) < args.minlen
           /\ \E t \in Range(raw) : isdigit(t)

\* C4: no table, unigram or n-gram, holds the empty string as a key.
C4_NoEmptyKey ==
  /\ <<>> \notin Keys(word_counts)
  /\ \A n \in DOMAIN ngram_counts : <<>> \notin Keys(ngram_counts[n])

\* C5: clean_line(clean_line(line, fmt), fmt) = clean_line(line, fmt) for every
\* line and every format.
C5_Idempotent == stage = "recleaned" => out2 = out

\* C6: when the text left after URL, tag, timestamp and speaker-prefix removal
\* is, once trimmed, a whole-line "(...)" or "[...]" cue, clean_line returns "".
C6_CueDropped ==
  (stage # "line" /\ IsCue(Strip(Denoised(line, fmt)))) => out = <<>>

\* C7: a file whose read fails is skipped and the run goes on to the files
\* left: it does not abort.
C7_UnreadableSkipped ==
  unread # {} => (pc # "aborted" /\ unread \cap todo = {})

\* C8: when no token survives the filters in the whole corpus, the finished
\* run has printed the warning and every file written holds only its header.
C8_EmptyResult ==
  (pc = "done" /\ \A f \in corpus : Surviving(f) = <<>>) =>
    (warned /\ \A c \in csv : c.rows = <<>>)

\* r1 is ranked before r2 in the table: a larger count, or the same count and
\* an earlier insertion
Before(table, r1, r2) ==
  \/ r1[2] > r2[2]
  \/ r1[2] = r2[2] /\ KeyIndex(table, r1[1]) < KeyIndex(table, r2[1])

\* rows are the first rows of the ranking of the table: all of them when no n
\* is given (0), otherwise the first n, or all when the table has fewer, and
\* none for a negative n
Ranked(table, rows, n) ==
  /\ Len(rows) = IF n = 0 \/ n >= Len(table) THEN Len(table)
                 ELSE IF n < 0 THEN 0 ELSE n
  /\ \A i \in 1..Len(rows) : rows[i] \in Range(table)
  /\ \A i, j \in 1..Len(rows) : i < j => Before(table, rows[i], rows[j])
  /\ \A x \in Range(table) \ Range(rows) :
       \A i \in 1..Len(rows) : Before(table, rows[i], x)

\* the table a written file was made from
TableOf(c) == IF c.kind = "unigram" THEN word_counts ELSE ngram_counts[c.n]

\* C10: the rows written for a table are in non-increasing order of count,
\* rows of equal count in the order their keys were first inserted, and with
\* a top-N they are the first N rows of that ordering (all rows when the
\* table has fewer, or when no top-N is given).
C10_RowsRanked ==
  pc = "done" => \A c \in csv : Ranked(TableOf(c), c.rows, top)

\* a written file cut to its top rows, from a table with a tie and with a key
\* inserted late that is ranked first
C10_Witness ==
  /\ pc = "done"
  /\ top > 0
  /\ \E c \in csv :
       LET table == TableOf(c)
       IN  /\ c.rows # <<>>
           /\ Len(c.rows) < Len(table)
           /\ \E i, j \in 1..Len(table) : i < j /\ table[i][2] = table[j][2]
           /\ KeyIndex(table, c.rows[1][1]) > 1

\* C9: tokenizing two cleaned lines joined by one space gives the tokens of the
\* first followed by the tokens of the second, with and without numbers kept.
C9_JoinSplits == tstage = "both" => toks_joined = toks_apart

\* two lines that meet in token characters, each giving a token
C9_Witness ==
  /\ tstage = "both"
  /\ ~IsNonTokenChar(la[Len(la)]) /\ ~IsNonTokenChar(lb[1])
  /\ tokenize(la, keep) # <<>> /\ tokenize(lb, keep) # <<>>
  /\ toks_joined = toks_apart
====
